---------------------------- MODULE Spec2Model ----------------------------
(***************************************************************************)
(* Video import / list / delete application: the zustand store             *)
(* (src/src/store/useVideoStore.ts), the copy pipeline                     *)
(* (src/src/utils/uploadUtils.ts) and the sequential import loop of        *)
(* SelectVideosButton (src/unnamed/part_000).                              *)
(*                                                                         *)
(* JavaScript runs one task at a time: every action below is the code that *)
(* runs between two awaits.  AsyncStorage requests are served in the order *)
(* they were issued (the queue sq); react-native-fs calls settle in any    *)
(* order.  Strings are sequences of UTF-16 code units (one-character       *)
(* strings), byte counts are pairs <<MiB, bytes below one MiB>>.            *)
(***************************************************************************)
EXTENDS Integers, Sequences, FiniteSets, TLC

\* ------------------------------------------------------------------ bounds
MaxTime == 2
MaxPick == 3
MaxBatches == 1
MaxNameLen == 2
MaxStamp == 11
MaxMiBStep == 6
MaxRem == 1
MaxPickMin == 6
MaxChunks == 2

\* --------------------------------------------------------------- strings
Range(s) == {s[i] : i \in 1..Len(s)}

DigitChars == <<"0", "1", "2", "3", "4", "5", "6", "7", "8", "9">>

RECURSIVE Digits(_)
Digits(n) ==
    IF n < 10 THEN <<DigitChars[n + 1]>>
    ELSE Digits(n \div 10) \o <<DigitChars[(n % 10) + 1]>>

Lower == {"a", "b", "c", "d", "e", "f", "g", "h", "i", "j", "k", "l", "m",
          "n", "o", "p", "q", "r", "s", "t", "u", "v", "w", "x", "y", "z"}
Upper == {"A", "B", "C", "D", "E", "F", "G", "H", "I", "J", "K", "L", "M",
          "N", "O", "P", "Q", "R", "S", "T", "U", "V", "W", "X", "Y", "Z"}
AlnumDot == Lower \cup Upper \cup Range(DigitChars) \cup {"."}

SafeCharKeepDash(c) == IF c \in AlnumDot \cup {"-"} THEN c ELSE "_"
SafeChar(c) == IF c \in AlnumDot THEN c ELSE "_"

Sanitize(s) == [i \in 1..Len(s) |-> SafeChar(s[i])]

\* ------------------------------------------------------------ byte counts
MiB == 1024 * 1024
UnitsPerGiB == 1024
Bytes(m, r) == <<m, r>>
SizeLe(a, b) == a[1] < b[1] \/ (a[1] = b[1] /\ a[2] <= b[2])
SizeLt(a, b) == a[1] < b[1] \/ (a[1] = b[1] /\ a[2] < b[2])

MIN_SIZE_BYTES == Bytes(5, 0)
MAX_SIZE_BYTES == Bytes(2 * UnitsPerGiB, 0)

ValidateVideoSize(size) ==
    IF SizeLt(size, MIN_SIZE_BYTES) THEN <<"Video is too small (<5MB)">>
    ELSE IF SizeLt(MAX_SIZE_BYTES, size) THEN <<"Video is too large (>2GB)">>
    ELSE <<>>

\* ------------------------------------------------- copyVideoToStorage names
VIDEO_DIR == <<"DocumentDirectoryPath", "/imported_videos">>

NoName == <<>>

SafeName(fileName, timestamp) ==
    IF fileName # NoName THEN Sanitize(fileName)
    ELSE <<"v", "i", "d", "e", "o", "_">> \o Digits(timestamp) \o <<".", "m", "p", "4">>

FinalName(fileName, timestamp) ==
    Digits(timestamp) \o <<"_">> \o SafeName(fileName, timestamp)

DestPath(fileName, timestamp) == VIDEO_DIR \o <<"/">> \o FinalName(fileName, timestamp)

MakeMeta(fileName, timestamp, sizeBytes) ==
    [id |-> FinalName(fileName, timestamp),
     name |-> SafeName(fileName, timestamp),
     size |-> sizeBytes,
     path |-> DestPath(fileName, timestamp),
     createdAt |-> timestamp]

\* ------------------------------------------------------ persisted JSON array
STORAGE_KEY == "@start_poc_videos"

StringifyOne(v) == <<v.id, v.name, v.size, v.path, v.createdAt>>
ParseOneLosesSize(j) == [id |-> j[1], name |-> j[2], size |-> <<0, 0>>, path |-> j[4], createdAt |-> j[5]]
ParseOne(j) == [id |-> j[1], name |-> j[2], size |-> j[3], path |-> j[4], createdAt |-> j[5]]

StringifyNewestFirst(vs) == [i \in 1..Len(vs) |-> StringifyOne(vs[Len(vs) + 1 - i])]
Stringify(vs) == [i \in 1..Len(vs) |-> StringifyOne(vs[i])]
Parse(js) == [i \in 1..Len(js) |-> ParseOne(js[i])]


\* ------------------------------------------------------------ picked assets
\* What the document picker can hand back: a uri (a sequence of tokens, <<>> when
\* the asset has none), a display name and a reported size.
AssetSpace == <<"a", " ", "b">>
AssetUnder == <<"a", "_", "b">>
AssetSmall == <<"c">>
AssetNoUri == <<"d">>

PickA == [uri |-> <<"file://", "a", "%20", "b">>, name |-> AssetSpace, size |-> Bytes(5, 0)]
PickB == [uri |-> <<"content://", "a", "_", "b">>, name |-> AssetUnder, size |-> Bytes(2 * UnitsPerGiB, 0)]
PickC == [uri |-> <<"file://", "c">>, name |-> AssetSmall, size |-> Bytes(4, MiB - 1)]
PickD == [uri |-> <<>>, name |-> AssetNoUri, size |-> Bytes(5, 0)]

Assets == {PickA, PickB, PickC, PickD}

PickSeqs == UNION {[1..n -> Assets] : n \in 1..MaxPick}

\* ------------------------------------------------------------------- state
VARIABLES
    videos, isLoading, error, selectedVideo,        \* the zustand store
    stored, sq,                                     \* AsyncStorage: value under STORAGE_KEY, pending requests
    files, dirExists, now,                          \* file system, last reading of the wall clock
    pcLoad, pcAdd, addUpdated,                      \* loadVideos, addVideos
    pcDel, delVideo, delUpdated, pcClear,           \* deleteVideo, clearVideos
    pcImp, preparing, processing, progress,         \* SelectVideosButton
    validAssets, idx, successCount, errors,         \* handleSelectVideos locals
    registered,                                     \* records addVideos has put in the list for the running batch
    cpTs, cpErr,                                    \* copyVideoToStorage locals
    imported, copyCalls, nBatches,                  \* history: records created, copies called, batches run
    overlap,                                        \* history: store operations completed while another was in flight
    disturbed,                                      \* history: since the app started, the load or a deleteVideo's write failed, or store calls overlapped
    before,                                         \* history: the list the app held when it was closed, until the next load
    ev,                                             \* what the last step completed
    cIn, cT, cOut,                                  \* naming of copyVideoToStorage taken alone
    vSize, vOut,                                    \* validateVideoSize taken alone
    mPicked, mOut,                                  \* the count checks of the min-5 variant
    uIn, uPc, uPct, uOut                            \* one uploadVideo call

storeVars == <<videos, isLoading, error, selectedVideo>>
envVars == <<stored, sq, files, dirExists, now>>
opVars == <<pcLoad, pcAdd, addUpdated, pcDel, delVideo, delUpdated, pcClear>>
uiVars == <<pcImp, preparing, processing, progress>>
loopVars == <<validAssets, idx, successCount, errors, cpTs, cpErr, copyCalls, registered>>
tripVars == <<disturbed, before>>
histVars == <<imported, nBatches, overlap, tripVars>>
uploadVars == <<uIn, uPc, uPct, uOut>>
nameVars == <<cIn, cT, cOut, vSize, vOut, mPicked, mOut, uploadVars>>
vars == <<storeVars, envVars, opVars, uiVars, loopVars, histVars, ev, nameVars>>

NoProgress == [current |-> 0, total |-> 0]

NoUpload == uIn = <<>> /\ uPc = "idle" /\ uPct = <<>> /\ uOut = <<>>

\* The app as it starts: an empty store, nothing persisted, no file copied.
InitApp ==
    /\ videos = <<>> /\ isLoading = FALSE /\ error = <<>> /\ selectedVideo = <<>>
    /\ stored = <<>> /\ sq = <<>>
    /\ files = {} /\ dirExists = FALSE /\ now = 1
    /\ pcLoad = "mount" /\ pcAdd = "idle" /\ addUpdated = <<>>
    /\ pcDel = "idle" /\ delVideo = <<>> /\ delUpdated = <<>> /\ pcClear = "idle"
    /\ pcImp = "idle" /\ preparing = FALSE /\ processing = FALSE /\ progress = NoProgress
    /\ validAssets = <<>> /\ idx = 0 /\ successCount = 0 /\ errors = <<>>
    /\ registered = 0
    /\ cpTs = 0 /\ cpErr = <<>>
    /\ imported = <<>> /\ copyCalls = <<>> /\ nBatches = 0
    /\ overlap = <<>>
    /\ disturbed = FALSE /\ before = <<>>
    /\ ev = <<>>

Init ==
    /\ InitApp
    /\ cIn = NoName /\ cT = 0 /\ cOut = <<>>
    /\ vSize = <<>> /\ vOut = <<>>
    /\ mPicked = <<>> /\ mOut = <<>>
    /\ NoUpload

\* The array persisted under STORAGE_KEY, an absent key counting as the empty list.
Persisted == IF stored = <<>> THEN <<>> ELSE Parse(stored[1])

\* The operations that ended in the last step, each with its outcome.
Ended(op) == \E i \in 1..Len(ev) : ev[i].op = op
EventOf(op) == ev[CHOOSE i \in 1..Len(ev) : ev[i].op = op]

\* --------------------------------------------------------------- the store
\* The record of overlapping store operations.  An operation that completes
\* while an addVideos or a deleteVideo is in flight, or after one completed
\* during its own flight, is noted with what it did; the step after which none
\* is in flight reports the notes and clears them.
Done(kind, video) == [kind |-> kind, video |-> video]
Noted(done, otherInFlight) ==
    IF otherInFlight \/ overlap # <<>> THEN Append(overlap, done) ELSE <<>>
Note(done, otherInFlight) ==
    overlap' = IF otherInFlight THEN Noted(done, otherInFlight) ELSE <<>>
OverlapEnded(done, otherInFlight) ==
    IF ~otherInFlight /\ overlap # <<>>
    THEN <<[op |-> "overlap", ops |-> Append(overlap, done)]>>
    ELSE <<>>
DeleteDone(outcome) ==
    Done(IF outcome \in {"unlinked", "no file"} THEN "delete" ELSE "other", delVideo)

SetError(e) == error' = e

\* videos.find(v => v.id === id): the first record with that id, <<>> when none.
RECURSIVE FindById(_, _)
FindById(vs, id) ==
    IF vs = <<>> THEN <<>>
    ELSE IF Head(vs).id = id THEN <<Head(vs)>>
    ELSE FindById(Tail(vs), id)

IdIs(v, id) == v.id = id
WithoutId(vs, id) == SelectSeq(vs, LAMBDA v : ~IdIs(v, id))

AppendedFront(old, new) == new \o old
Appended(old, new) == old \o new

\* loadVideos, up to its await of AsyncStorage.getItem.  App calls it once, on mount.
LoadCall ==
    /\ pcLoad = "mount"
    /\ isLoading' = TRUE /\ error' = <<>>
    /\ sq' = Append(sq, "load") /\ pcLoad' = "get"
    /\ ev' = <<>>
    /\ UNCHANGED <<videos, selectedVideo, stored, files, dirExists, now>>
    /\ UNCHANGED <<pcAdd, addUpdated, pcDel, delVideo, delUpdated, pcClear>>
    /\ UNCHANGED <<uiVars, loopVars, histVars, nameVars>>

\* getItem settles: the stored value, when there is one, replaces the list.
LoadDone ==
    /\ pcLoad = "get" /\ sq # <<>> /\ Head(sq) = "load"
    /\ \E ok \in BOOLEAN :
        /\ IF ok
           THEN /\ videos' = (IF stored # <<>> THEN Parse(stored[1]) ELSE videos)
                /\ UNCHANGED error
           ELSE /\ error' = <<"Failed to load videos from storage">>
                /\ UNCHANGED videos
        /\ ev' = <<[op |-> "loadVideos", ok |-> ok, before |-> before]>>
        /\ disturbed' = (disturbed \/ ~ok)
    /\ isLoading' = FALSE
    /\ sq' = Tail(sq) /\ pcLoad' = "idle"
    /\ overlap' = IF pcAdd # "idle" \/ pcDel # "idle"
                  THEN Append(overlap, Done("other", <<>>)) ELSE overlap
    /\ UNCHANGED <<selectedVideo, stored, files, dirExists, now>>
    /\ UNCHANGED <<pcAdd, addUpdated, pcDel, delVideo, delUpdated, pcClear>>
    /\ before' = <<>>
    /\ UNCHANGED <<uiVars, loopVars, imported, nBatches, nameVars>>

\* addVideos(newVideos), up to its await of AsyncStorage.setItem.
AddCall(newVideos) ==
    /\ pcAdd = "idle"
    /\ isLoading' = TRUE /\ error' = <<>>
    /\ addUpdated' = Appended(videos, newVideos)
    /\ sq' = Append(sq, "add") /\ pcAdd' = "set"
    /\ disturbed' = (disturbed \/ pcDel # "idle")

\* clearVideos, up to its await of AsyncStorage.removeItem.  No component calls
\* it; it is taken between other store operations.
ClearCall ==
    /\ pcClear = "idle"
    /\ pcLoad # "mount" /\ selectedVideo = <<>>
    /\ pcAdd = "idle" /\ pcDel = "idle" /\ pcImp = "idle" /\ sq = <<>>
    /\ isLoading' = TRUE /\ error' = <<>>
    /\ sq' = Append(sq, "clear") /\ pcClear' = "remove"
    /\ ev' = <<>>
    /\ UNCHANGED <<videos, selectedVideo, stored, files, dirExists, now>>
    /\ UNCHANGED <<pcLoad, pcAdd, addUpdated, pcDel, delVideo, delUpdated>>
    /\ UNCHANGED <<uiVars, loopVars, histVars, nameVars>>

ClearDone ==
    /\ pcClear = "remove" /\ sq # <<>> /\ Head(sq) = "clear"
    /\ \E ok \in BOOLEAN :
        /\ IF ok
           THEN stored' = <<>> /\ videos' = <<>> /\ UNCHANGED error
           ELSE error' = <<"Failed to clear videos">> /\ UNCHANGED <<stored, videos>>
        /\ ev' = <<[op |-> "clearVideos", ok |-> ok]>>
    /\ isLoading' = FALSE
    /\ sq' = Tail(sq) /\ pcClear' = "idle"
    /\ overlap' = IF pcAdd # "idle" \/ pcDel # "idle"
                  THEN Append(overlap, Done("other", <<>>)) ELSE overlap
    /\ UNCHANGED <<selectedVideo, files, dirExists, now>>
    /\ UNCHANGED <<pcLoad, pcAdd, addUpdated, pcDel, delVideo, delUpdated>>
    /\ disturbed' = (disturbed \/ pcAdd # "idle" \/ pcDel # "idle")
    /\ UNCHANGED <<uiVars, loopVars, imported, nBatches, before, nameVars>>

\* The ids the list has shown: what confirmDelete can pass to deleteVideo.
ShownIds == {imported[i].id : i \in 1..Len(imported)}

DeleteEnded(video, outcome) ==
    [op |-> "deleteVideo", id |-> video.id, path |-> video.path, video |-> <<video>>,
     outcome |-> outcome]

NoError == <<>>
\* What the catch of deleteVideo sets for the 'Video not found' it has thrown.
NotFoundError == <<"Failed to delete video: ", "Video not found">>

\* deleteVideo(id) of an id that is not listed: it throws before its first await.
DeleteNotFound ==
    /\ pcLoad # "mount" /\ selectedVideo = <<>>
    /\ \E id \in ShownIds :
        /\ FindById(videos, id) = <<>>
        /\ error' = NotFoundError
        /\ ev' = <<[op |-> "deleteVideo", id |-> id, path |-> <<>>, video |-> <<>>,
                     outcome |-> "not found"]>>
    /\ isLoading' = FALSE
    /\ UNCHANGED <<videos, selectedVideo, envVars, opVars>>
    /\ UNCHANGED <<uiVars, loopVars, histVars, nameVars>>

\* deleteVideo(id) of a listed id, up to its await of AsyncStorage.setItem: the
\* record leaves the list before the write is issued.  One such call is in
\* flight at a time.
DeleteCall ==
    /\ pcDel = "idle"
    /\ pcLoad # "mount" /\ selectedVideo = <<>>
    /\ \E id \in ShownIds :
        /\ FindById(videos, id) # <<>>
        /\ delVideo' = FindById(videos, id)
        /\ delUpdated' = WithoutId(videos, id)
        /\ videos' = WithoutId(videos, id)
    /\ isLoading' = TRUE /\ error' = <<>>
    /\ sq' = Append(sq, "del") /\ pcDel' = "set"
    /\ disturbed' = (disturbed \/ pcAdd # "idle")
    /\ ev' = <<>>
    /\ UNCHANGED <<selectedVideo, stored, files, dirExists, now>>
    /\ UNCHANGED <<pcLoad, pcAdd, addUpdated, pcClear>>
    /\ UNCHANGED <<uiVars, loopVars, imported, nBatches, overlap, before, nameVars>>

\* Whether deleteVideo goes on to the file once its setItem has settled.
GoesOnAfterFailedWrite(ok) == TRUE
GoesOnToFile(ok) == ok

\* setItem settles; on success deleteVideo goes on to await RNFS.exists, on
\* failure the catch reports it and nothing is reverted.
DeleteWritten ==
    /\ pcDel = "set" /\ sq # <<>> /\ Head(sq) = "del"
    /\ \E ok \in BOOLEAN :
        /\ stored' = (IF ok THEN <<Stringify(delUpdated)>> ELSE stored)
        /\ IF GoesOnToFile(ok)
           THEN /\ pcDel' = "exists" /\ ev' = <<>>
                /\ UNCHANGED <<error, isLoading, delVideo, delUpdated, overlap>>
                /\ disturbed' = (disturbed \/ ~ok)
           ELSE /\ error' = <<"Failed to delete video: ", "setItem failed">>
                /\ disturbed' = TRUE
                /\ isLoading' = FALSE
                /\ pcDel' = "idle" /\ delVideo' = <<>> /\ delUpdated' = <<>>
                /\ Note(DeleteDone("write failed"), pcAdd # "idle")
                /\ ev' = <<DeleteEnded(delVideo[1], "write failed")>>
                         \o OverlapEnded(DeleteDone("write failed"), pcAdd # "idle")
    /\ sq' = Tail(sq)
    /\ UNCHANGED <<videos, selectedVideo, files, dirExists, now>>
    /\ UNCHANGED <<pcLoad, pcAdd, addUpdated, pcClear>>
    /\ UNCHANGED <<uiVars, loopVars, imported, nBatches, before, nameVars>>

\* RNFS.exists(videoToDelete.path) settles.
DeleteExists ==
    /\ pcDel = "exists"
    /\ IF delVideo[1].path \in files
       THEN /\ pcDel' = "unlink" /\ ev' = <<>>
            /\ UNCHANGED <<isLoading, delVideo, delUpdated, overlap>>
       ELSE /\ isLoading' = FALSE
            /\ pcDel' = "idle" /\ delVideo' = <<>> /\ delUpdated' = <<>>
            /\ Note(DeleteDone("no file"), pcAdd # "idle")
            /\ ev' = <<DeleteEnded(delVideo[1], "no file")>>
                     \o OverlapEnded(DeleteDone("no file"), pcAdd # "idle")
    /\ UNCHANGED <<videos, error, selectedVideo, envVars>>
    /\ UNCHANGED <<pcLoad, pcAdd, addUpdated, pcClear>>
    /\ UNCHANGED <<uiVars, loopVars, imported, nBatches, tripVars, nameVars>>

\* RNFS.unlink(videoToDelete.path) settles.
DeleteUnlink ==
    /\ pcDel = "unlink"
    /\ \E ok \in BOOLEAN :
        IF ok
        THEN /\ files' = files \ {delVideo[1].path} /\ UNCHANGED error
             /\ Note(DeleteDone("unlinked"), pcAdd # "idle")
             /\ ev' = <<DeleteEnded(delVideo[1], "unlinked")>>
                      \o OverlapEnded(DeleteDone("unlinked"), pcAdd # "idle")
        ELSE /\ error' = <<"Failed to delete video: ", "unlink failed">> /\ UNCHANGED files
             /\ Note(DeleteDone("unlink failed"), pcAdd # "idle")
             /\ ev' = <<DeleteEnded(delVideo[1], "unlink failed")>>
                      \o OverlapEnded(DeleteDone("unlink failed"), pcAdd # "idle")
    /\ isLoading' = FALSE
    /\ pcDel' = "idle" /\ delVideo' = <<>> /\ delUpdated' = <<>>
    /\ UNCHANGED <<videos, selectedVideo, stored, sq, dirExists, now>>
    /\ UNCHANGED <<pcLoad, pcAdd, addUpdated, pcClear>>
    /\ UNCHANGED <<uiVars, loopVars, imported, nBatches, tripVars, nameVars>>

\* setSelectedVideo(video): a tap on a listed video, or the player closing.  The
\* player covers the screen, so it is opened and closed between operations.
SetSelectedVideo ==
    /\ pcLoad = "idle" /\ pcAdd = "idle" /\ pcDel = "idle" /\ pcClear = "idle"
    /\ pcImp = "idle"
    /\ \E v \in {<<>>} \cup {<<r>> : r \in Range(videos)} :
        v # selectedVideo /\ selectedVideo' = v
    /\ ev' = <<>>
    /\ UNCHANGED <<videos, isLoading, error, envVars, opVars>>
    /\ UNCHANGED <<uiVars, loopVars, histVars, nameVars>>

\* ------------------------------------------------------ handleSelectVideos
\* The size-validation loop over the picked assets: an asset without uri is
\* skipped, one of invalid size adds an error line, the others are kept in order.
SizeOf(asset) == IF asset.size = <<>> THEN Bytes(0, 0) ELSE asset.size
NameOf(asset) == IF asset.name = <<>> THEN <<"V", "i", "d", "e", "o">> ELSE asset.name

UriNotTested(asset) == TRUE
\* if (!asset.uri) continue;
HasUri(asset) == asset.uri # <<>>

RECURSIVE Validated(_, _, _)
Validated(assets, valid, errs) ==
    IF assets = <<>> THEN [valid |-> valid, errors |-> errs]
    ELSE LET asset == Head(assets)
             sizeError == ValidateVideoSize(SizeOf(asset))
         IN  IF ~HasUri(asset) THEN Validated(Tail(assets), valid, errs)
             ELSE IF sizeError # <<>>
             THEN Validated(Tail(assets), valid,
                            Append(errs, [name |-> NameOf(asset), message |-> sizeError]))
             ELSE Validated(Tail(assets),
                            Append(valid, [uri |-> asset.uri, name |-> NameOf(asset),
                                           size |-> SizeOf(asset)]),
                            errs)

\* The least number of videos a batch needs: 5 in the variant of the button
\* kept in DeleteConfirmationModal.tsx, 1 in SelectVideosButton.
MIN_VIDEOS == 5
MIN_VALID == 1

\* The count tests, and variants of them with the other threshold.
TooFewUnderFive(valid) == Len(valid) < MIN_VIDEOS
TooFew(valid) == Len(valid) < MIN_VALID
TooFewPickedMin(assets) == Len(assets) < MIN_VIDEOS
TooFewValidAtOne(valid) == Len(valid) < MIN_VALID
TooFewValidMin(valid) == Len(valid) < MIN_VIDEOS

FinallyStillProcessing ==
    /\ pcImp' = "idle"
    /\ processing' = processing /\ preparing' = FALSE /\ progress' = NoProgress
    /\ validAssets' = <<>> /\ idx' = 0 /\ successCount' = 0 /\ errors' = <<>>
    /\ registered' = 0
    /\ cpTs' = 0 /\ cpErr' = <<>> /\ copyCalls' = <<>>

\* The finally block, and the locals of the call going out of scope.
Finally ==
    /\ pcImp' = "idle"
    /\ processing' = FALSE /\ preparing' = FALSE /\ progress' = NoProgress
    /\ validAssets' = <<>> /\ idx' = 0 /\ successCount' = 0 /\ errors' = <<>>
    /\ registered' = 0
    /\ cpTs' = 0 /\ cpErr' = <<>> /\ copyCalls' = <<>>

StartIterationSameProgress(va, i, sc, errs, calls, prog) ==
    /\ pcImp' = "dirExists"
    /\ validAssets' = va /\ idx' = i + 1
    /\ successCount' = sc /\ errors' = errs
    /\ progress' = prog
    /\ copyCalls' = Append(calls, va[i + 1])
    /\ cpTs' = 0 /\ cpErr' = <<>>

\* Iteration i + 1 of the copy loop, up to the first await of copyVideoToStorage
\* (RNFS.exists(VIDEO_DIR) in ensureVideoDirExists).
StartIteration(va, i, sc, errs, calls, prog) ==
    /\ pcImp' = "dirExists"
    /\ validAssets' = va /\ idx' = i + 1
    /\ successCount' = sc /\ errors' = errs
    /\ progress' = [prog EXCEPT !.current = i + 1]
    /\ copyCalls' = Append(calls, va[i + 1])
    /\ cpTs' = 0 /\ cpErr' = <<>>

StopsAtFailure(i, sc, errs, reg) ==
    IF i < Len(validAssets) /\ Len(errs) = Len(errors)
    THEN StartIteration(validAssets, i, sc, errs, copyCalls, progress)
         /\ registered' = reg
         /\ UNCHANGED <<preparing, processing>>
    ELSE Finally

\* The loop test after iteration i: the next item, or the final report and finally.
LoopNext(i, sc, errs, reg) ==
    IF i < Len(validAssets)
    THEN StartIteration(validAssets, i, sc, errs, copyCalls, progress)
         /\ registered' = reg
         /\ UNCHANGED <<preparing, processing>>
    ELSE Finally

\* The loop's catch: the failure is recorded and the loop goes on.
CaughtErrors(message) ==
    Append(errors, [name |-> validAssets[idx].name, message |-> message])
LoopCatch(message) == LoopNext(idx, successCount, CaughtErrors(message), registered)

\* Alert.alert(title, message); the lists of error lines in a message are left out.
Alert(title, message) == [title |-> title, message |-> message]
ValidationAlert ==
    Alert("Validation Error", "After filtering invalid sizes (5MB-2GB), no valid videos remain.")
UnexpectedAlert == Alert("Error", "An unexpected error occurred: ")
\* The final report after the loop.
FinalReport(sc, errs) ==
    (IF sc > 0 THEN <<>> ELSE <<Alert("Error", "Failed to save any videos.")>>)
    \o (IF Len(errs) > 0 /\ sc = 0 THEN <<Alert("Error", "Failed to save videos.")>> ELSE <<>>)

\* What a step that leaves handleSelectVideos reports: how it ended, the copies
\* it called and the assets that had passed validation.
BatchEnded(outcome, alerts) ==
    [op |-> "batch", outcome |-> outcome, calls |-> copyCalls, valid |-> validAssets,
     successCount |-> successCount, registered |-> registered, alerts |-> alerts]
LoopEnded(sc, errs, reg) ==
    IF pcImp' = "idle"
    THEN <<[op |-> "batch", outcome |-> "done", calls |-> copyCalls,
            valid |-> validAssets, successCount |-> sc, registered |-> reg,
            alerts |-> FinalReport(sc, errs)]>>
    ELSE <<>>
\* What the step in which the picker resolves reports: the assets picked.
Picked(assets) == [op |-> "picked", assets |-> assets]

ButtonShownWhilePreparing == ~processing
\* The render of SelectVideosButton: the button is there when neither flag is set.
ButtonShown == ~preparing /\ ~processing

\* The presses explored: any while a batch may still enter the copy loop; once
\* MaxBatches batches have, only those made between store operations.
PressExplored ==
    \/ nBatches < MaxBatches
    \/ /\ pcLoad = "idle" /\ pcAdd = "idle" /\ pcDel = "idle" /\ pcClear = "idle"
       /\ sq = <<>>

\* A press on "+ Select New Videos", shown while neither flag is set.
ImpStart ==
    /\ ButtonShown
    /\ PressExplored
    /\ pcLoad # "mount" /\ selectedVideo = <<>>
    /\ preparing' = TRUE
    /\ SetError(<<>>)
    /\ pcImp' = "pick"
    /\ ev' = <<>>
    /\ UNCHANGED <<videos, isLoading, selectedVideo, envVars, opVars>>
    /\ UNCHANGED <<processing, progress, loopVars, histVars, nameVars>>

\* The picker is dismissed.
ImpPickCancel ==
    /\ pcImp = "pick"
    /\ Finally
    /\ ev' = <<BatchEnded("cancel", <<>>)>>
    /\ UNCHANGED <<storeVars, envVars, opVars, histVars, nameVars>>

\* The picker rejects with another error: the outer catch, then finally.
ImpPickThrow ==
    /\ pcImp = "pick"
    /\ Finally
    /\ ev' = <<BatchEnded("throw", <<UnexpectedAlert>>)>>
    /\ UNCHANGED <<storeVars, envVars, opVars, histVars, nameVars>>

\* The picker resolves: validation, then the first iteration or the rejection.
ImpPicked ==
    /\ pcImp = "pick"
    /\ \E assets \in PickSeqs :
        LET v == Validated(assets, <<>>, <<>>)
        IN  IF TooFew(v.valid)
            THEN /\ Finally
                 /\ ev' = <<Picked(assets), BatchEnded("rejected", <<ValidationAlert>>)>>
                 /\ UNCHANGED nBatches
            ELSE /\ nBatches < MaxBatches
                 /\ StartIteration(v.valid, 0, 0, v.errors, <<>>,
                                   [current |-> 0, total |-> Len(v.valid)])
                 /\ registered' = 0
                 /\ processing' = TRUE /\ preparing' = FALSE
                 /\ nBatches' = nBatches + 1
                 /\ ev' = <<Picked(assets)>>
    /\ UNCHANGED <<storeVars, envVars, opVars, imported, overlap, tripVars, nameVars>>

\* ------------------------------------------------------ copyVideoToStorage
\* decodeURIComponent over the uri's tokens; a malformed escape makes it throw.
MalformedEscapes == {"%", "%ZZ"}
IncludesPercent(uri) == \E i \in 1..Len(uri) : uri[i] \in MalformedEscapes \cup {"%20"}
DecodeThrows(uri) == \E i \in 1..Len(uri) : uri[i] \in MalformedEscapes
DecodeURIComponent(uri) == [i \in 1..Len(uri) |-> IF uri[i] = "%20" THEN " " ELSE uri[i]]
ProcessedUri(uri) == IF IncludesPercent(uri) THEN DecodeURIComponent(uri) ELSE uri

Asset == validAssets[idx]
Dest == DestPath(Asset.name, cpTs)

CopyFrame == UNCHANGED <<preparing, processing, progress, validAssets, idx,
                         successCount, errors, copyCalls, registered>>

\* What a step in which copyVideoToStorage rejects reports: where it failed
\* (in ensureVideoDirExists, or in the try block), the error its caller
\* catches, the error the try block had thrown, and whether a file is left at
\* destPath among the files there are then.
CopyThrew(stage, thrown, filesThen) ==
    <<[op |-> "copyVideoToStorage", stage |-> stage, thrown |-> thrown,
       original |-> cpErr, left |-> (stage = "copy" /\ Dest \in filesThen)]>>

\* ensureVideoDirExists is done: Date.now() is read (the clock does not run
\* backwards, and may not have moved since the last reading) and the try block
\* is entered, up to its first await.
AfterEnsureDir ==
    /\ \E t \in now..MaxTime : now' = t /\ cpTs' = t
    /\ IF IncludesPercent(Asset.uri) /\ DecodeThrows(Asset.uri)
       THEN pcImp' = "cleanupExists" /\ cpErr' = <<"URI malformed">>
       ELSE IF ProcessedUri(Asset.uri)[1] = "content://"
       THEN pcImp' = "srcStat" /\ cpErr' = <<>>
       ELSE pcImp' = "copyFile" /\ cpErr' = <<>>

\* RNFS.exists(VIDEO_DIR) settles.
ImpDirExists ==
    /\ pcImp = "dirExists"
    /\ IF dirExists THEN AfterEnsureDir
       ELSE pcImp' = "mkdir" /\ UNCHANGED <<cpTs, cpErr, now>>
    /\ CopyFrame
    /\ ev' = <<>>
    /\ UNCHANGED <<storeVars, stored, sq, files, dirExists, opVars, histVars, nameVars>>

\* RNFS.mkdir(VIDEO_DIR) settles; a rejection leaves copyVideoToStorage before
\* its try block and lands in the loop's catch.
ImpMkdir ==
    /\ pcImp = "mkdir"
    /\ \E ok \in BOOLEAN :
        IF ok
        THEN dirExists' = TRUE /\ AfterEnsureDir /\ CopyFrame /\ ev' = <<>>
        ELSE /\ UNCHANGED <<dirExists, now>> /\ LoopCatch(<<"mkdir failed">>)
             /\ ev' = CopyThrew("ensureDir", <<"mkdir failed">>, files)
                      \o LoopEnded(successCount, CaughtErrors(<<"mkdir failed">>), registered)
    /\ UNCHANGED <<storeVars, stored, sq, files, opVars, histVars, nameVars>>

\* RNFS.stat(processedUri) of a content:// uri settles.
ImpSrcStat ==
    /\ pcImp = "srcStat"
    /\ \E outcome \in {"resolved", "unresolved", "rejected"} :
        IF outcome = "resolved" THEN pcImp' = "copyFile" /\ UNCHANGED cpErr
        ELSE IF outcome = "unresolved"
        THEN pcImp' = "cleanupExists" /\ cpErr' = <<"Cannot resolve real file path">>
        ELSE pcImp' = "cleanupExists" /\ cpErr' = <<"stat failed">>
    /\ UNCHANGED cpTs /\ CopyFrame
    /\ ev' = <<>>
    /\ UNCHANGED <<storeVars, envVars, opVars, histVars, nameVars>>

\* RNFS.copyFile(actualPath, destPath) settles; a failed copy may leave a
\* partial file behind.
ImpCopyFile ==
    /\ pcImp = "copyFile"
    /\ \E outcome \in {"copied", "failed", "partial"} :
        IF outcome = "copied"
        THEN files' = files \cup {Dest} /\ pcImp' = "stat" /\ UNCHANGED cpErr
        ELSE /\ files' = (IF outcome = "partial" THEN files \cup {Dest} ELSE files)
             /\ pcImp' = "cleanupExists" /\ cpErr' = <<"copyFile failed">>
    /\ UNCHANGED cpTs /\ CopyFrame
    /\ ev' = <<>>
    /\ UNCHANGED <<storeVars, stored, sq, dirExists, now, opVars, histVars, nameVars>>

LoopForgetsAdd == FALSE
\* Whether the loop awaits the promise of addVideos before it goes on.
LoopAwaitsAdd == TRUE

\* RNFS.stat(destPath) settles: the record is built and handed to addVideos.
ImpStat ==
    /\ pcImp = "stat"
    /\ \E ok \in {b \in BOOLEAN : b => Dest \in files} :
        IF ok
        THEN LET meta == MakeMeta(Asset.name, cpTs, Asset.size)
             IN  /\ imported' = Append(imported, meta)
                 /\ AddCall(<<meta>>)
                 /\ IF LoopAwaitsAdd
                    THEN pcImp' = "add" /\ UNCHANGED <<cpTs, cpErr>> /\ CopyFrame
                    ELSE LoopNext(idx, successCount + 1, errors, registered)
                 /\ ev' = LoopEnded(successCount + 1, errors, registered)
        ELSE /\ pcImp' = "cleanupExists" /\ cpErr' = <<"stat failed">>
             /\ UNCHANGED <<cpTs, imported, isLoading, error, addUpdated, sq, pcAdd, disturbed>>
             /\ CopyFrame
             /\ ev' = <<>>
    /\ UNCHANGED <<videos, selectedVideo, stored, files, dirExists, now>>
    /\ UNCHANGED <<pcLoad, pcDel, delVideo, delUpdated, pcClear, nBatches, overlap, before, nameVars>>

\* The catch block: RNFS.exists(destPath) settles.
ImpCleanupExists ==
    /\ pcImp = "cleanupExists"
    /\ IF Dest \in files
       THEN pcImp' = "cleanupUnlink" /\ UNCHANGED <<cpTs, cpErr>> /\ CopyFrame /\ ev' = <<>>
       ELSE LoopCatch(cpErr) /\ ev' = CopyThrew("copy", cpErr, files)
                                        \o LoopEnded(successCount, CaughtErrors(cpErr), registered)
    /\ UNCHANGED <<storeVars, envVars, opVars, histVars, nameVars>>

\* The catch block: RNFS.unlink(destPath) settles, then the error is rethrown.
ImpCleanupUnlink ==
    /\ pcImp = "cleanupUnlink"
    /\ \E ok \in BOOLEAN :
        IF ok
        THEN /\ files' = files \ {Dest} /\ LoopCatch(cpErr)
             /\ ev' = CopyThrew("copy", cpErr, files \ {Dest})
                      \o LoopEnded(successCount, CaughtErrors(cpErr), registered)
        ELSE /\ UNCHANGED files /\ LoopCatch(<<"unlink failed">>)
             /\ ev' = CopyThrew("copy", <<"unlink failed">>, files)
                      \o LoopEnded(successCount, CaughtErrors(<<"unlink failed">>), registered)
    /\ UNCHANGED <<storeVars, stored, sq, dirExists, now, opVars, histVars, nameVars>>

\* The catch of a store function that installs its list before the write, as
\* deleteVideo does.
AddInstalledThenFailed ==
    error' = <<"Failed to save videos metadata">> /\ videos' = addUpdated /\ UNCHANGED stored
\* The catch of addVideos: the write failed before set({ videos: updated }).
AddFailed ==
    error' = <<"Failed to save videos metadata">> /\ UNCHANGED <<stored, videos>>

\* setItem of addVideos settles; the import loop, which awaits it, goes on.
AddDone ==
    /\ pcAdd = "set" /\ sq # <<>> /\ Head(sq) = "add"
    /\ \E ok \in BOOLEAN :
        LET reg == registered + (IF ok THEN 1 ELSE 0)
            done == Done(IF ok THEN "add" ELSE "other", <<addUpdated[Len(addUpdated)]>>)
        IN  /\ IF ok
               THEN stored' = <<Stringify(addUpdated)>> /\ videos' = addUpdated /\ UNCHANGED error
               ELSE AddFailed
            /\ IF pcImp = "add"
               THEN LoopNext(idx, successCount + 1, errors, reg)
               ELSE UNCHANGED <<uiVars, loopVars>>
            /\ Note(done, pcDel # "idle")
            /\ ev' = <<[op |-> "addVideos", ok |-> ok]>>
                     \o LoopEnded(successCount + 1, errors, reg)
                     \o OverlapEnded(done, pcDel # "idle")
    /\ isLoading' = FALSE
    /\ sq' = Tail(sq) /\ pcAdd' = "idle" /\ addUpdated' = <<>>
    /\ UNCHANGED <<selectedVideo, files, dirExists, now>>
    /\ UNCHANGED <<pcLoad, pcDel, delVideo, delUpdated, pcClear, imported, nBatches, tripVars, nameVars>>

\* ------------------------------------------------------------- environment
Quiet ==
    /\ pcLoad = "idle" /\ pcAdd = "idle" /\ pcDel = "idle" /\ pcClear = "idle"
    /\ pcImp = "idle" /\ sq = <<>>

\* The app is closed and opened again between operations: the store is created
\* anew, storage and files stay.
Restart ==
    /\ Quiet
    /\ videos' = <<>> /\ isLoading' = FALSE /\ error' = <<>> /\ selectedVideo' = <<>>
    /\ pcLoad' = "mount"
    /\ ev' = <<>>
    /\ UNCHANGED <<envVars, pcAdd, addUpdated, pcDel, delVideo, delUpdated, pcClear>>
    /\ UNCHANGED <<uiVars, loopVars, imported, nBatches, overlap, nameVars>>
    /\ before' = (IF disturbed THEN <<>> ELSE <<videos>>)
    /\ disturbed' = FALSE

Next ==
    \/ LoadCall \/ LoadDone
    \/ ClearCall \/ ClearDone
    \/ DeleteNotFound \/ DeleteCall \/ DeleteWritten \/ DeleteExists \/ DeleteUnlink
    \/ SetSelectedVideo
    \/ ImpStart \/ ImpPickCancel \/ ImpPickThrow \/ ImpPicked
    \/ ImpDirExists \/ ImpMkdir \/ ImpSrcStat \/ ImpCopyFile \/ ImpStat
    \/ ImpCleanupExists \/ ImpCleanupUnlink
    \/ AddDone
    \/ Restart

Spec == Init /\ [][Next]_vars

\* The picker, every file-system call of a copy and every AsyncStorage request
\* settle in the end.
\* A pending call stays pending until it settles, so it is enough that some
\* pending call settles as long as there is one.
Settles ==
    \/ ImpPickCancel \/ ImpPickThrow \/ ImpPicked
    \/ ImpDirExists \/ ImpMkdir \/ ImpSrcStat \/ ImpCopyFile \/ ImpStat
    \/ ImpCleanupExists \/ ImpCleanupUnlink
    \/ LoadDone \/ ClearDone \/ DeleteWritten \/ AddDone
Settling == WF_vars(Settles)
\* The app used for imports only: it loads its list when it starts, imports,
\* and is closed and opened again; nothing is deleted or cleared.
NextImport ==
    \/ LoadCall \/ LoadDone
    \/ ImpStart \/ ImpPickCancel \/ ImpPickThrow \/ ImpPicked
    \/ ImpDirExists \/ ImpMkdir \/ ImpSrcStat \/ ImpCopyFile \/ ImpStat
    \/ ImpCleanupExists \/ ImpCleanupUnlink
    \/ AddDone
    \/ Restart
SpecSettling == Init /\ [][NextImport]_vars /\ Settling

\* ------------------------------------- copyVideoToStorage's naming, taken alone
\* File names the picker can report: letters, digits and dots, and characters
\* outside that class; NoName is a missing or empty name.
NameChars == {"a", "Z", "9", ".", " ", "-"}
FileNames == UNION {[1..n -> NameChars] : n \in 0..MaxNameLen}
CopiedSizes == {Bytes(5, 0), Bytes(2 * UnitsPerGiB, 0)}

InitCopy ==
    /\ InitApp
    /\ cIn \in FileNames /\ cT \in 0..MaxStamp /\ cOut = <<>>
    /\ vSize = <<>> /\ vOut = <<>>
    /\ mPicked = <<>> /\ mOut = <<>>
    /\ NoUpload

\* A copyVideoToStorage(uri, cIn) that reads the clock at cT and succeeds.
CopyApply ==
    /\ cOut = <<>>
    /\ \E sizeBytes \in CopiedSizes : cOut' = <<MakeMeta(cIn, cT, sizeBytes)>>
    /\ UNCHANGED <<cIn, cT, vSize, vOut, mPicked, mOut, uploadVars>>
    /\ UNCHANGED <<storeVars, envVars, opVars, uiVars, loopVars, histVars, ev>>

\* The same file is imported once more: the clock does not run backwards.
CopyAgain ==
    /\ cOut # <<>>
    /\ cIn' = cIn /\ cT' \in cT..MaxStamp /\ cOut' = <<>>
    /\ UNCHANGED <<vSize, vOut, mPicked, mOut, uploadVars>>
    /\ UNCHANGED <<storeVars, envVars, opVars, uiVars, loopVars, histVars, ev>>

NextCopy == CopyApply \/ CopyAgain

SpecCopy == InitCopy /\ [][NextCopy]_vars

\* ----------------------------------------------- validateVideoSize, taken alone
\* Sizes the picker can report: around 0 and MIN_SIZE_BYTES and around
\* MAX_SIZE_BYTES, each whole MiB with a few bytes more or less; <<>> is an
\* asset that reports no size.
ReportedMiB == (0..MaxMiBStep) \cup ((2 * UnitsPerGiB - MaxMiBStep)..(2 * UnitsPerGiB + MaxMiBStep))
ReportedRem == (0..MaxRem) \cup ((MiB - 1 - MaxRem)..(MiB - 1))
ReportedSizes == {Bytes(m, r) : m \in ReportedMiB, r \in ReportedRem} \cup {<<>>}

InitSize ==
    /\ InitApp
    /\ cIn = NoName /\ cT = 0 /\ cOut = <<>>
    /\ vSize \in ReportedSizes /\ vOut = <<>>
    /\ mPicked = <<>> /\ mOut = <<>>
    /\ NoUpload

\* The validation loop's step for one asset: validateVideoSize(asset.size || 0).
SizeApply ==
    /\ vOut = <<>>
    /\ vOut' = <<ValidateVideoSize(SizeOf([size |-> vSize]))>>
    /\ UNCHANGED <<cIn, cT, cOut, vSize, mPicked, mOut, uploadVars>>
    /\ UNCHANGED <<storeVars, envVars, opVars, uiVars, loopVars, histVars, ev>>

NextSize == SizeApply

SpecSize == InitSize /\ [][NextSize]_vars

\* -------------- the SelectVideosButton kept in DeleteConfirmationModal.tsx
\* Its handleSelectVideos from the picker's result to the copy loop: the count
\* check on the picked assets, the size validation, the count check on the
\* valid ones.  The loop it then enters is the one of part_000 with a delay
\* after each item.  (On iOS the size and the name are read from fileSize and
\* fileName instead.)
PickedMin == UNION {[1..n -> Assets] : n \in 0..MaxPickMin}

MinRejected(message) ==
    [outcome |-> "rejected", alerts |-> <<Alert("Validation Error", message)>>,
     valid |-> <<>>, entersLoop |-> FALSE]

CheckedMin(assets) ==
    IF TooFewPickedMin(assets)
    THEN MinRejected("You must select at least 5 videos.")
    ELSE LET v == Validated(assets, <<>>, <<>>)
         IN  IF TooFewValidMin(v.valid)
             THEN MinRejected("Minimum 5 valid videos required.")
             ELSE [outcome |-> "loop", alerts |-> <<>>, valid |-> v.valid,
                   entersLoop |-> TRUE]

InitMin ==
    /\ InitApp
    /\ cIn = NoName /\ cT = 0 /\ cOut = <<>>
    /\ vSize = <<>> /\ vOut = <<>>
    /\ mPicked \in PickedMin /\ mOut = <<>>
    /\ NoUpload

\* The picker has resolved with mPicked: up to the first copy, or to the return.
MinApply ==
    /\ mOut = <<>>
    /\ mOut' = <<CheckedMin(mPicked)>>
    /\ UNCHANGED <<cIn, cT, cOut, vSize, vOut, mPicked, uploadVars>>
    /\ UNCHANGED <<storeVars, envVars, opVars, uiVars, loopVars, histVars, ev>>

NextMin == MinApply

SpecMin == InitMin /\ [][NextMin]_vars

\* ------------------------------------------------------------ uploadVideo
\* One call uploadVideo(videoMetadata, uploadUrl, onProgress).  The body up to
\* xhr.send runs in the call; the request's events arrive later, one at a time.
\* A record whose size is <<>> has no size at run time: size.toString() throws.
UploadedRecords ==
    {MakeMeta(AssetUnder, t, sz) : t \in 0..MaxTime, sz \in {Bytes(5, 0), <<>>}}
EmptyUrl == <<>>
UploadUrls == {EmptyUrl, <<"https://", "host", "/upload">>}
UploadCalls ==
    [videoMetadata : UploadedRecords, uploadUrl : UploadUrls, onProgress : BOOLEAN]

\* HTTP statuses around the two ends of the accepted range.
Statuses == {199, 200, 204, 299, 300, 404, 500}
IsOk(status) == status >= 200 /\ status < 300

\* Math.round((loaded / total) * 100)
Percentage(loaded, total) == (200 * loaded + total) \div (2 * total)

Settled(state, result, reason, event, status) ==
    <<[state |-> state, result |-> result, reason |-> reason,
       event |-> event, status |-> status]>>

Resolved(result, event, status) == Settled("resolved", <<result>>, <<>>, event, status)

Failure(videoMetadata, message) ==
    [success |-> FALSE, videoId |-> videoMetadata.id, error |-> message]

Success(videoMetadata) ==
    [success |-> TRUE, videoId |-> videoMetadata.id, error |-> <<>>]

InitUpload ==
    /\ InitApp
    /\ cIn = NoName /\ cT = 0 /\ cOut = <<>>
    /\ vSize = <<>> /\ vOut = <<>>
    /\ mPicked = <<>> /\ mOut = <<>>
    /\ uIn \in {<<c>> : c \in UploadCalls} /\ uPc = "idle" /\ uPct = <<>> /\ uOut = <<>>

UploadFrame ==
    /\ UNCHANGED <<cIn, cT, cOut, vSize, vOut, mPicked, mOut, uIn>>
    /\ UNCHANGED <<storeVars, envVars, opVars, uiVars, loopVars, histVars, ev>>

\* The call: build the form data (a throw is caught and reported), then the
\* executor of the returned promise: listeners, xhr.open (throws on an empty
\* url, inside the executor, and so rejects the promise), xhr.send.
UploadCall ==
    /\ uPc = "idle"
    /\ LET call == uIn[1]
       IN  IF call.videoMetadata.size = <<>>
           THEN /\ uPc' = "settled"
                /\ uOut' = Resolved(Failure(call.videoMetadata, <<"TypeError">>),
                                    "build", 0)
           ELSE IF call.uploadUrl = EmptyUrl
           THEN /\ uPc' = "settled"
                /\ uOut' = Settled("rejected", <<>>, <<"Cannot load an empty url">>,
                                   "open", 0)
           ELSE /\ uPc' = "sent"
                /\ uOut' = <<>>
    /\ UNCHANGED uPct
    /\ UploadFrame

\* xhr.upload 'progress'
UploadProgressEvent ==
    /\ uPc = "sent"
    /\ \E lengthComputable \in BOOLEAN, loaded \in 0..MaxChunks :
          uPct' = IF lengthComputable /\ uIn[1].onProgress
                  THEN <<Percentage(loaded, MaxChunks)>>
                  ELSE uPct
    /\ UNCHANGED <<uPc, uOut>>
    /\ UploadFrame

\* xhr 'load'
UploadLoad ==
    /\ uPc = "sent"
    /\ \E status \in Statuses :
          uOut' = IF IsOk(status)
                  THEN Resolved(Success(uIn[1].videoMetadata), "load", status)
                  ELSE Resolved(Failure(uIn[1].videoMetadata,
                                        <<"Server returned ">> \o Digits(status) \o <<": ">>),
                                "load", status)
    /\ uPc' = "settled"
    /\ UNCHANGED uPct
    /\ UploadFrame

\* xhr 'error'
UploadError ==
    /\ uPc = "sent"
    /\ uOut' = Resolved(Failure(uIn[1].videoMetadata,
                                <<"Network error occurred during upload">>), "error", 0)
    /\ uPc' = "settled"
    /\ UNCHANGED uPct
    /\ UploadFrame

\* xhr 'timeout'
UploadTimeout ==
    /\ uPc = "sent"
    /\ uOut' = Resolved(Failure(uIn[1].videoMetadata, <<"Upload timed out">>),
                        "timeout", 0)
    /\ uPc' = "settled"
    /\ UNCHANGED uPct
    /\ UploadFrame

NextUpload ==
    \/ UploadCall
    \/ UploadProgressEvent
    \/ UploadLoad
    \/ UploadError
    \/ UploadTimeout

SpecUpload == InitUpload /\ [][NextUpload]_vars

\* ================================================================ properties
\* s is t with some elements left out, the others in t's order.
RECURSIVE IsSubseq(_, _)
IsSubseq(s, t) ==
    IF s = <<>> THEN TRUE
    ELSE IF t = <<>> THEN FALSE
    ELSE IF Head(s) = Head(t) THEN IsSubseq(Tail(s), Tail(t))
    ELSE IsSubseq(s, Tail(t))

\* Positions of handleSelectVideos inside copyVideoToStorage, and inside the loop.
CopyPcs == {"dirExists", "mkdir", "srcStat", "copyFile", "stat", "cleanupExists", "cleanupUnlink"}
LoopPcs == CopyPcs \cup {"add"}

StoreIdle == pcLoad = "idle" /\ pcAdd = "idle" /\ pcDel = "idle" /\ pcClear = "idle"

\* The deleteVideo that ended in the last step, when one did.
DeleteEndedWith(outcome) ==
    Ended("deleteVideo") /\ EventOf("deleteVideo").outcome = outcome
\* Only one record was ever created with the id of the deleted video.
DeletedIdCreatedOnce ==
    Cardinality({i \in 1..Len(imported) : imported[i].id = EventOf("deleteVideo").id}) = 1

\* C1: every record of the persisted array has a file at its path.
PersistedRecordsHaveFiles ==
    \A i \in 1..Len(Persisted) : Persisted[i].path \in files

\* C2: once loadVideos has completed and no store operation is in flight, the
\* in-memory list equals the persisted array.
IdleStoreMirrorsStorage ==
    StoreIdle => videos = Persisted

\* The record of created record i as the loop's call names it: the sanitized
\* name and the size of the asset.
CallKey(asset) == <<Sanitize(asset.name), asset.size>>
RecordKey(v) == <<v.name, v.size>>
\* The records the running batch has created so far: the last ones of the history.
BatchCreated == successCount + (IF pcImp = "add" THEN 1 ELSE 0)
BatchRecords == SubSeq(imported, Len(imported) - BatchCreated + 1, Len(imported))

\* C3: the list is in import order: it is the sequence of created records with
\* some left out, and the records of the running batch were created in the
\* order of the loop's copy calls, the order of selection.
VideosInImportOrder ==
    /\ IsSubseq(videos, imported)
    /\ pcImp \in LoopPcs =>
         /\ BatchCreated <= Len(imported)
         /\ IsSubseq([i \in 1..Len(BatchRecords) |-> RecordKey(BatchRecords[i])],
                     [i \in 1..Len(copyCalls) |-> CallKey(copyCalls[i])])
\* A delete has left two different records of three, still in the order they
\* were created.
VideosInImportOrderWitness ==
    /\ DeleteEndedWith("unlinked")
    /\ Len(imported) = 3 /\ Len(videos) = 2
    /\ videos[1] # videos[2]
    /\ EventOf("deleteVideo").id \notin {videos[1].id, videos[2].id}

\* C4: while the loop runs, copyVideoToStorage has been called for exactly the
\* first idx size-valid assets, once each and in order; a batch that ends has
\* called it for every size-valid asset.
EveryValidAssetCopiedOnce ==
    /\ pcImp \in LoopPcs =>
         /\ idx \in 1..Len(validAssets)
         /\ copyCalls = SubSeq(validAssets, 1, idx)
         /\ \A i \in 1..Len(validAssets) : ValidateVideoSize(validAssets[i].size) = <<>>
    /\ (Ended("batch") /\ EventOf("batch").outcome = "done") =>
         /\ EventOf("batch").valid # <<>>
         /\ EventOf("batch").calls = EventOf("batch").valid
\* The second asset is being copied although the first one's copy failed.
SecondCopiedAfterFirstFailed ==
    /\ pcImp = "copyFile" /\ idx = 2 /\ imported = <<>>
    /\ \E i \in 1..Len(errors) : errors[i].message = <<"copyFile failed">>

\* C5: while a copy of the batch runs no addVideos is in flight, and the call
\* being copied is the only one started and not settled; while the loop waits
\* for addVideos no copy runs.
OneItemAtATime ==
    /\ pcImp \in CopyPcs => pcAdd = "idle" /\ "add" \notin Range(sq) /\ Len(copyCalls) = idx
    /\ pcImp = "add" => pcAdd = "set" /\ Len(copyCalls) = idx
\* The second copy runs after the first record was created and registered.
SecondCopyAfterFirstRegistered ==
    /\ pcImp \in CopyPcs /\ idx = 2
    /\ Len(imported) = 1 /\ videos = imported /\ Persisted = imported

\* C6: a deleteVideo whose unlink failed ends with the record in neither the
\* in-memory list nor the persisted array and with the failure in `error`
\* (stated for a video whose id no other created record shares; DeleteUnlink
\* leaves the files alone when the unlink fails).
FailedUnlinkLeavesRecordRemoved ==
    (DeleteEndedWith("unlink failed") /\ DeletedIdCreatedOnce) =>
        /\ FindById(videos, EventOf("deleteVideo").id) = <<>>
        /\ FindById(Persisted, EventOf("deleteVideo").id) = <<>>
        /\ error = <<"Failed to delete video: ", "unlink failed">>

RecordsAreImmutable ==
    [][/\ \A i \in 1..Len(videos') :
            videos'[i] \in Range(videos) \cup Range(imported')
       /\ (selectedVideo' # selectedVideo \/ error' # error) /\ pcAdd' = pcAdd
             /\ pcLoad' = pcLoad /\ pcDel' = pcDel /\ pcClear' = pcClear
          => videos' = videos]_vars
\* loadVideos of a new app run has restored two records kept by the last one.
TwoRecordsLoadedBack ==
    /\ Ended("loadVideos") /\ EventOf("loadVideos").ok
    /\ Len(videos) = 2 /\ videos = imported

\* The number a decimal numeral denotes, and the length of cT's numeral.
RECURSIVE DecimalValue(_)
DecimalValue(ds) ==
    IF ds = <<>> THEN 0
    ELSE 10 * DecimalValue(SubSeq(ds, 1, Len(ds) - 1))
         + (CHOOSE d \in 0..9 : DigitChars[d + 1] = ds[Len(ds)])
StampLen == IF cT < 10 THEN 1 ELSE IF cT < 100 THEN 2 ELSE 3
\* C9: the record of a successful copyVideoToStorage(uri, cIn) that read the
\* clock at cT: createdAt is cT, id is cT in decimal, '_' and the name, path is
\* VIDEO_DIR, '/' and the id; the name is cIn, as long as cIn, with every
\* character outside [a-zA-Z0-9.] replaced by '_', or video_<cT>.mp4 when cIn
\* is missing or empty.
CopyReturnsNamedRecord ==
    cOut # <<>> =>
        LET r == cOut[1]
            stamp == SubSeq(r.id, 1, StampLen)
        IN  /\ r.createdAt = cT
            /\ Range(stamp) \subseteq Range(DigitChars) /\ DecimalValue(stamp) = cT
            /\ r.id = stamp \o <<"_">> \o r.name
            /\ r.path = VIDEO_DIR \o <<"/">> \o r.id
            /\ IF cIn = <<>>
               THEN r.name = <<"v", "i", "d", "e", "o", "_">> \o stamp \o <<".", "m", "p", "4">>
               ELSE /\ Len(r.name) = Len(cIn)
                    /\ \A i \in 1..Len(cIn) :
                         r.name[i] = (IF cIn[i] \in AlnumDot THEN cIn[i] ELSE "_")
\* A two-character name with a dash, copied at a two-digit timestamp.
DashedNameCopied ==
    /\ cOut # <<>> /\ cT >= 10
    /\ Len(cIn) = 2 /\ cIn[1] = "-" /\ cIn[2] \in AlnumDot

\* C11: validateVideoSize(asset.size || 0) is null exactly for the sizes from
\* 5 MiB to 2 GiB, both included, the too-small message below (a missing size
\* counts as 0) and the too-large message above.
SizeAcceptedExactlyInRange ==
    vOut # <<>> =>
        LET m == IF vSize = <<>> THEN 0 ELSE vSize[1]
            r == IF vSize = <<>> THEN 0 ELSE vSize[2]
            atLeastMin == m >= 5
            atMostMax == m < 2 * UnitsPerGiB \/ (m = 2 * UnitsPerGiB /\ r = 0)
        IN  /\ (atLeastMin /\ atMostMax) <=> vOut[1] = <<>>
            /\ ~atLeastMin <=> vOut[1] = <<"Video is too small (<5MB)">>
            /\ ~atMostMax <=> vOut[1] = <<"Video is too large (>2GB)">>
\* Exactly 2 GiB has been validated and accepted.
MaxSizeAccepted ==
    vOut = <<<<>>>> /\ vSize = Bytes(2 * UnitsPerGiB, 0)

\* C12: a copyVideoToStorage that failed inside its try block rejects with the
\* error the try block threw and leaves no file at destPath.
FailedCopyRethrowsAndCleansUp ==
    (Ended("copyVideoToStorage") /\ EventOf("copyVideoToStorage").stage = "copy") =>
        /\ EventOf("copyVideoToStorage").thrown = EventOf("copyVideoToStorage").original
        /\ ~EventOf("copyVideoToStorage").left

\* The picked assets that have a uri and a size validateVideoSize accepts.
NumValid(assets) ==
    Cardinality({i \in 1..Len(assets) :
                    assets[i].uri # <<>> /\ ValidateVideoSize(SizeOf(assets[i])) = <<>>})

\* C13: a picked batch with at least one valid asset enters the copy loop with
\* no alert; one without is rejected with the 'Validation Error' alert, no copy
\* called, and the step changes no file, no record and nothing stored.
NoMinimumSelectionCount ==
    /\ [](Ended("picked") =>
            IF NumValid(EventOf("picked").assets) >= 1
            THEN /\ pcImp = "dirExists" /\ processing /\ ~Ended("batch")
                 /\ Len(validAssets) = NumValid(EventOf("picked").assets)
            ELSE /\ pcImp = "idle" /\ Ended("batch")
                 /\ EventOf("batch").outcome = "rejected"
                 /\ EventOf("batch").calls = <<>>
                 /\ Len(EventOf("batch").alerts) = 1
                 /\ EventOf("batch").alerts[1].title = "Validation Error")
    /\ []((Ended("batch") /\ EventOf("batch").outcome = "rejected") => Ended("picked"))
    /\ [][(pcImp = "pick" /\ pcImp' = "idle") =>
            UNCHANGED <<files, imported, videos, stored>>]_vars
\* A batch of a single valid asset has entered the copy loop.
SingleVideoEntersLoop ==
    /\ Ended("picked") /\ Len(EventOf("picked").assets) = 1
    /\ pcImp = "dirExists" /\ Len(copyCalls) = 1

\* C14: in the variant a batch of fewer than 5 picked assets, or with fewer than
\* 5 assets of valid size, ends with one 'Validation Error' alert and without
\* entering the copy loop, the store's list left as it was; only a batch with
\* at least 5 valid assets enters the loop.
VariantNeedsFiveVideos ==
    [][mOut' # mOut =>
        /\ videos' = videos /\ imported' = imported /\ files' = files
        /\ IF Len(mPicked) < 5 \/ NumValid(mPicked) < 5
           THEN /\ ~mOut'[1].entersLoop
                /\ Len(mOut'[1].alerts) = 1
                /\ mOut'[1].alerts[1].title = "Validation Error"
           ELSE /\ mOut'[1].entersLoop /\ mOut'[1].alerts = <<>>
                /\ Len(mOut'[1].valid) = NumValid(mPicked)]_vars
\* Five assets were picked, one of them too small: rejected after validation.
FivePickedFourValid ==
    /\ mOut # <<>> /\ Len(mPicked) = 5 /\ NumValid(mPicked) = 4
    /\ ~mOut[1].entersLoop

\* C15: the promise returned by uploadVideo never rejects; it resolves with
\* success = TRUE exactly when the load event arrived with a status in 200..299,
\* otherwise with success = FALSE and a non-empty error, and videoId is always
\* the id of the record passed in.
UploadNeverRejects ==
    uOut # <<>> =>
        /\ uOut[1].state = "resolved"
        /\ uOut[1].result[1].videoId = uIn[1].videoMetadata.id
        /\ uOut[1].result[1].success
              <=> (uOut[1].event = "load" /\ uOut[1].status \in 200..299)
        /\ ~uOut[1].result[1].success => uOut[1].result[1].error # <<>>

\* C16: always 0 <= progress.current <= progress.total; while the copy loop
\* runs total is the number of valid assets of the pick and current the 1-based
\* index of the item being copied; a step inside the loop keeps total and
\* either keeps current or starts the next item and raises current by 1; the
\* step that ends the batch resets both to 0, and they are 0 outside a batch.
ProgressFollowsLoop ==
    /\ [](/\ 0 <= progress.current /\ progress.current <= progress.total
          /\ pcImp \in LoopPcs =>
                /\ progress.total = Len(validAssets)
                /\ progress.current = idx /\ idx >= 1
                /\ progress.current = Len(copyCalls)
          /\ (Ended("picked") /\ pcImp \in LoopPcs) =>
                /\ progress.total = NumValid(EventOf("picked").assets)
                /\ progress.current = 1
          /\ pcImp \notin LoopPcs => progress = NoProgress)
    /\ [][/\ (pcImp \in LoopPcs /\ pcImp' \in LoopPcs) =>
                /\ progress'.total = progress.total
                /\ \/ progress'.current = progress.current /\ copyCalls' = copyCalls
                   \/ /\ progress'.current = progress.current + 1
                      /\ Len(copyCalls') = Len(copyCalls) + 1
          /\ (pcImp \in LoopPcs /\ pcImp' \notin LoopPcs) => progress' = NoProgress]_vars
\* The second item of a batch of three valid assets is being copied.
SecondOfThreeInProgress ==
    /\ pcImp = "copyFile" /\ progress = [current |-> 2, total |-> 3]

\* C17: when the copy loop ends, the 'Failed to save any videos.' alert is
\* raised exactly when addVideos put no record of the batch in the list, and
\* successCount is the number of records it did put there.
SuccessCountIsRegistered ==
    (Ended("batch") /\ EventOf("batch").outcome = "done") =>
        /\ (\E i \in 1..Len(EventOf("batch").alerts) :
                EventOf("batch").alerts[i].message = "Failed to save any videos.")
              <=> EventOf("batch").registered = 0
        /\ EventOf("batch").successCount = EventOf("batch").registered

\* The operations of one kind among those that completed overlapping.
OverlappedDone(kind) ==
    {EventOf("overlap").ops[i].video[1] :
        i \in {j \in 1..Len(EventOf("overlap").ops) : EventOf("overlap").ops[j].kind = kind}}
IdsOf(vs) == {vs[i].id : i \in 1..Len(vs)}
\* C18: when addVideos calls and deleteVideo calls of other records have
\* overlapped and all succeeded, with no other store operation completing
\* among them, then once none is in flight the list and the persisted array
\* contain every added record and no deleted one.
NoLostUpdate ==
    (/\ Ended("overlap")
     /\ \A i \in 1..Len(EventOf("overlap").ops) : EventOf("overlap").ops[i].kind # "other"
     /\ {a.id : a \in OverlappedDone("add")} \cap {d.id : d \in OverlappedDone("delete")} = {})
    => /\ \A a \in OverlappedDone("add") : a \in Range(videos) /\ a \in Range(Persisted)
       /\ \A d \in OverlappedDone("delete") :
             d.id \notin IdsOf(videos) /\ d.id \notin IdsOf(Persisted)

\* C19: the step in which the write of addVideos fails changes neither the list
\* nor the persisted array, sets error to 'Failed to save videos metadata' and
\* isLoading to false; the list is then the one the call had found, unless some
\* other store operation ran meanwhile; and the call resolves: the loop that
\* awaited it records no error and counts the item.
FailedAddLeavesList ==
    [][(\E i \in 1..Len(ev') : ev'[i].op = "addVideos" /\ ~ev'[i].ok) =>
        /\ videos' = videos /\ stored' = stored
        /\ error' = <<"Failed to save videos metadata">>
        /\ isLoading' = FALSE
        /\ (pcDel = "idle" /\ overlap = <<>>)
              => videos' = SubSeq(addUpdated, 1, Len(addUpdated) - 1)
        /\ pcImp = "add" /\ pcAdd' = "idle"
        /\ IF pcImp' = "idle"
           THEN \E j \in 1..Len(ev') :
                   /\ ev'[j].op = "batch" /\ ev'[j].outcome = "done"
                   /\ ev'[j].successCount = successCount + 1
           ELSE errors' = errors /\ successCount' = successCount + 1]_vars
\* The write of the second record failed: the list still holds the first one
\* only, and the loop has gone on to the third item.
SecondAddFailed ==
    /\ Ended("addVideos") /\ ~EventOf("addVideos").ok
    /\ Len(videos) = 1 /\ Len(imported) = 2 /\ videos[1] = imported[1]
    /\ error = <<"Failed to save videos metadata">> /\ ~isLoading
    /\ pcImp = "dirExists" /\ idx = 3 /\ errors = <<>>

\* C20: a deleteVideo of an id that is not in the list changes neither the
\* list nor the persisted array nor any file, issues no storage write, and
\* sets error to 'Failed to delete video: Video not found'.
DeleteOfMissingIdChangesNothing ==
    [][(\E i \in 1..Len(ev') : ev'[i].op = "deleteVideo" /\ ev'[i].outcome = "not found") =>
        /\ \A i \in 1..Len(ev') : ev'[i].op = "deleteVideo" => ev'[i].id \notin IdsOf(videos)
        /\ videos' = videos /\ stored' = stored /\ files' = files
        /\ sq' = sq /\ pcDel' = pcDel
        /\ error' = <<"Failed to delete video: ", "Video not found">>]_vars
\* A second deleteVideo of a record that a first one has deleted, file included.
SecondDeleteOfSameId ==
    /\ DeleteEndedWith("not found")
    /\ \E i \in 1..Len(imported) :
          /\ imported[i].id = EventOf("deleteVideo").id
          /\ imported[i].path \notin files
    /\ EventOf("deleteVideo").id \notin IdsOf(Persisted)
    /\ Persisted # <<>>

\* C21: when the app was closed after addVideos and deleteVideo calls that ran
\* one at a time and wrote what they had set, the loadVideos of the next start
\* restores the list the app held when it was closed: the same records, with
\* the same fields, in the same order.
LoadRestoresList ==
    (Ended("loadVideos") /\ EventOf("loadVideos").ok /\ EventOf("loadVideos").before # <<>>)
        => videos = EventOf("loadVideos").before[1]
\* Of two imported records the one a delete has left is loaded back.
OneOfTwoRestored ==
    /\ Ended("loadVideos") /\ EventOf("loadVideos").ok
    /\ EventOf("loadVideos").before # <<>>
    /\ Len(EventOf("loadVideos").before[1]) = 1 /\ Len(imported) = 2
    /\ Cardinality(ShownIds) = 2
    /\ \E i \in 1..2 : imported[i].path \notin files
    /\ videos = EventOf("loadVideos").before[1]

\* The picked assets that have a uri and a size in the accepted range, in order.
UsableOf(assets) ==
    SelectSeq(assets, LAMBDA a : a.uri # <<>> /\ ValidateVideoSize(SizeOf(a)) = <<>>)
Usable(a) == a.uri # <<>> /\ ValidateVideoSize(a.size) = <<>>
\* C22: copyVideoToStorage is called only for picked assets with a uri and a
\* size that passes validateVideoSize: the loop's list is the picked assets
\* without those of no uri or of invalid size, every copy call is for one of
\* that list, and every record and every file in the video directory is of an
\* asset with a uri and a valid size.
OnlyUsableAssetsCopied ==
    /\ (Ended("picked") /\ pcImp \in LoopPcs) =>
          validAssets = UsableOf(EventOf("picked").assets)
    /\ (Ended("picked") /\ pcImp \notin LoopPcs) =>
          UsableOf(EventOf("picked").assets) = <<>> /\ EventOf("batch").calls = <<>>
    /\ \A i \in 1..Len(copyCalls) :
          Usable(copyCalls[i]) /\ copyCalls[i] \in Range(validAssets)
    /\ \A i \in 1..Len(imported) :
          /\ ValidateVideoSize(imported[i].size) = <<>>
          /\ \E a \in Assets : Usable(a) /\ imported[i].name = Sanitize(a.name)
    /\ \A f \in files :
          \E a \in Assets, t \in 0..MaxTime : Usable(a) /\ f = DestPath(a.name, t)
\* Of a pick of an asset without uri, one too small and a valid one, only the
\* valid one is being copied.
OnlyTheValidOneCopied ==
    /\ Ended("picked")
    /\ {PickC, PickD} \subseteq Range(EventOf("picked").assets)
    /\ pcImp = "dirExists"
    /\ Len(copyCalls) = 1 /\ copyCalls[1].uri # <<>>
    /\ Len(validAssets) = 1

ButtonIdle == pcImp = "idle" /\ ~processing /\ ~preparing /\ progress = NoProgress
\* C23: when the picker, the copies and the storage requests settle, every
\* started import ends, and it ends with processing and preparing false and
\* progress {0, 0}.
EveryImportEnds ==
    /\ [](pcImp = "idle" => ButtonIdle)
    /\ (pcImp # "idle") ~> ButtonIdle
\* All copies of a batch failed, and the batch has ended.
AllCopiesFailedAndEnded ==
    /\ Ended("batch") /\ EventOf("batch").outcome = "done"
    /\ EventOf("batch").successCount = 0 /\ Len(EventOf("batch").calls) = 2
    /\ ButtonIdle

\* C24: at most one import batch is in flight: handleSelectVideos starts only
\* from the idle button with preparing and processing both false, and while a
\* batch is in flight one of the two is true: preparing until the picker has
\* settled, processing while the loop runs; both are false when none is.
OneBatchInFlight ==
    /\ [](/\ pcImp = "pick" => preparing /\ ~processing
          /\ pcImp \in LoopPcs => processing /\ ~preparing
          /\ pcImp = "idle" => ~preparing /\ ~processing
          /\ pcImp \in {"idle", "pick"} \cup LoopPcs)
    /\ [][ImpStart => (pcImp = "idle" /\ ~preparing /\ ~processing /\ pcImp' = "pick")]_vars
\* The button is pressed again after a batch has ended.
PressedAfterBatch ==
    /\ pcImp = "pick" /\ preparing /\ ~processing
    /\ nBatches = 1 /\ Len(imported) >= 1

\* C10: any two records of the list have different ids and different paths.
IdsAndPathsUnique ==
    \A i, j \in 1..Len(videos) :
        i # j => videos[i].id # videos[j].id /\ videos[i].path # videos[j].path

=============================================================================
